---- MODULE Spec2Model ----
(***************************************************************************)
(* Model of assets/scripts/app.js of the SIMS shipment-inspection viewer:  *)
(* header normalisation and column resolution (addWorkbook), the status    *)
(* classifier and the status filter, the container / factory rollups of    *)
(* the export, and the in-place edit handlers of the table.                *)
(*                                                                         *)
(* A JavaScript string is a sequence of characters, each character a       *)
(* one-letter TLA+ string ("tab" and "nbsp" name the two unprintable       *)
(* ones).  A JavaScript object is the sequence of its [k, v] entries in    *)
(* insertion order.  Cell values are strings.                              *)
(*                                                                         *)
(* Spec is the page in use: files are read (each file of the pool once),   *)
(* the active file is switched, the filter controls change, cells are      *)
(* edited, the cards and the buttons are clicked.  SpecResolve runs the    *)
(* column resolution on one raw row, SpecStatus loads a one-row file and   *)
(* moves the status filter, SpecRollup loads one file and exports it.      *)
(***************************************************************************)
EXTENDS Integers, Sequences, FiniteSets, TLC

VARIABLES
    rawRow,            \* addWorkbook: the raw row r handed to rowsRaw.map
    nr,                \* addWorkbook: the normalized row built from r
    resolved,          \* whether the map callback has run on rawRow
    files,             \* files: key -> [name, rows, columns]
    activeKey,         \* activeKey, Null before the first file
    factoryOptions,    \* the options of factoryFilter after "All"
    containerOptions,  \* the options of containerFilter after "All"
    fFactory,          \* factoryFilter.value
    fContainer,        \* containerFilter.value
    fStatus,           \* statusFilter.value
    search,            \* searchInput.value
    displayed,         \* the table: the indices in files[activeKey].rows of its rows
    summary,           \* the numbers of the summary cards
    chart,             \* the data of the two charts
    cardCounts,        \* multipackCount and normalCount
    rowsCount,         \* rowsCount
    exported,          \* the workbook the handler that just ran has written, <<>> if none
    lastEdit,          \* the cell edit the handler that just ran has made, <<>> if none
    loaded,            \* the names of the files read so far
    edits,             \* the number of cell edits so far
    filterChanges      \* the number of changes of the filter controls so far

resolveVars == <<rawRow, nr, resolved>>

appVars == <<files, activeKey, factoryOptions, containerOptions, fFactory, fContainer, fStatus,
             search, displayed, summary, chart, cardCounts, rowsCount, exported, lastEdit,
             loaded, edits, filterChanges>>

vars == <<rawRow, nr, resolved, files, activeKey, factoryOptions, containerOptions, fFactory,
          fContainer, fStatus, search, displayed, summary, chart, cardCounts, rowsCount,
          exported, lastEdit, loaded, edits, filterChanges>>

----------------------------------------------------------------------------
(* Strings *)

UpperChars == <<"A","B","C","D","E","F","G","H","I","J","K","L","M",
                "N","O","P","Q","R","S","T","U","V","W","X","Y","Z">>

LowerChars == <<"a","b","c","d","e","f","g","h","i","j","k","l","m",
                "n","o","p","q","r","s","t","u","v","w","x","y","z">>

DigitChars == <<"0","1","2","3","4","5","6","7","8","9">>

Range(s) == {s[i] : i \in DOMAIN s}

\* the sequence with the elements of f, each element computed once
Tuple(f) == <<>> \o f

UpperSet == Range(UpperChars)

LowerOf == [c \in UpperSet |-> LowerChars[CHOOSE i \in DOMAIN UpperChars : UpperChars[i] = c]]

\* String.prototype.toLowerCase on one character
LowerChar(c) == IF c \in UpperSet THEN LowerOf[c] ELSE c

toLowerCase(s) == Tuple([i \in 1..Len(s) |-> LowerChar(s[i])])

\* \w of a regular expression: letters, digits, underscore
WordChars == Range(UpperChars) \cup Range(LowerChars) \cup Range(DigitChars) \cup {"_"}

IsWordChar(c) == c \in WordChars

\* \s of a regular expression, and what trim() strips
IsSpace(c) == c \in {" ", "tab", "nbsp"}

RECURSIVE TrimStart(_)
TrimStart(s) == IF s # <<>> /\ IsSpace(Head(s)) THEN TrimStart(Tail(s)) ELSE s

RECURSIVE TrimEnd(_)
TrimEnd(s) == IF s # <<>> /\ IsSpace(s[Len(s)]) THEN TrimEnd(SubSeq(s, 1, Len(s) - 1)) ELSE s

trim(s) == TrimEnd(TrimStart(s))

\* String.prototype.includes
includes(s, t) == \E i \in 0..(Len(s) - Len(t)) : SubSeq(s, i + 1, i + Len(t)) = t

endsWith(s, t) == Len(s) >= Len(t) /\ SubSeq(s, Len(s) - Len(t) + 1, Len(s)) = t

IsNbsp(c) == c = "nbsp"

NotNbsp(c) == ~IsNbsp(c)

----------------------------------------------------------------------------
(* Configuration *)

EXPECTED_COLS == <<
    <<"N", "O">>,
    <<"C", "o", "n", "t", "a", "i", "n", "e", "r", "N", "u", "m">>,
    <<"B", "o", "x", "N", "u", "m">>,
    <<"C", "o", "n", "t", "a", "i", "n", "e", "r">>,
    <<"B", "o", "x", "N", "a", "m", "e">>,
    <<"I", "t", "e", "m", "C", "o", "u", "n", "t">>,
    <<"K", "i", "t", "s">>,
    <<"F", "a", "c", "t", "o", "r", "y">>,
    <<"R", "E", "M", "A", "R", "K", "S">> >>

ColBoxNum == EXPECTED_COLS[3]

ColREMARKS == EXPECTED_COLS[9]

\* the entries of the object literal, in insertion order
COLUMN_ALIASES == <<
    [k |-> <<"b", "a", "s", "e", "b", "o", "x">>, v |-> ColBoxNum],
    [k |-> <<"b", "o", "x", " ", "n", "o">>, v |-> ColBoxNum],
    [k |-> <<"b", "o", "x", "n", "o">>, v |-> ColBoxNum],
    [k |-> <<"b", "o", "x", " ", "n", "u", "m", "b", "e", "r">>, v |-> ColBoxNum],
    [k |-> <<"b", "o", "x", "_", "n", "u", "m", "b", "e", "r">>, v |-> ColBoxNum],
    [k |-> <<"r", "e", "m", "a", "r", "k">>, v |-> ColREMARKS],
    [k |-> <<"r", "e", "m", "a", "r", "k", "s">>, v |-> ColREMARKS],
    [k |-> <<"s", "t", "a", "t", "u", "s">>, v |-> ColREMARKS],
    [k |-> <<"i", "n", "s", "p", "e", "c", "t", "i", "o", "n", " ", "s", "t", "a", "t", "u", "s">>,
     v |-> ColREMARKS] >>

----------------------------------------------------------------------------
(* Bounds *)

\* the edits and the changes of the filter controls made in one session
MaxInputs == 1

\* the headers of a raw row
MaxHeaders == 2

----------------------------------------------------------------------------
(* Objects: sequences of [k, v] entries in insertion order *)

\* the value read from a property that is not there
Undefined == <<"undefined">>

\* the null / not-found header: the empty string, which is falsy as null is
Null == <<>>

Truthy(s) == s # Null /\ s # Undefined

ObjKeys(o) == Tuple([i \in 1..Len(o) |-> o[i].k])

ObjHas(o, key) == \E i \in DOMAIN o : o[i].k = key

ObjGet(o, key) ==
    LET at == {i \in DOMAIN o : o[i].k = key}
    IN  IF at # {} THEN o[CHOOSE i \in at : TRUE].v ELSE Undefined

\* o[key] = val: an existing key keeps its place, a new key goes last
ObjSet(o, key, val) ==
    IF ObjHas(o, key)
    THEN Tuple([i \in 1..Len(o) |-> IF o[i].k = key THEN [k |-> key, v |-> val] ELSE o[i]])
    ELSE Append(o, [k |-> key, v |-> val])

\* Array.prototype.find over a sequence of strings: the first element that
\* satisfies P, or Null
FirstWhere(s, P(_)) ==
    LET hits == {i \in DOMAIN s : P(s[i])}
    IN  IF hits # {} THEN s[CHOOSE i \in hits : \A j \in hits : i <= j] ELSE Null

----------------------------------------------------------------------------
(* Utilities *)

normalizeKey(str) ==
    toLowerCase(SelectSeq(SelectSeq(trim(str), NotNbsp), IsWordChar))

\* COLUMN_ALIASES[key], Null when the object has no such key
AliasLookup(key) ==
    IF \E i \in DOMAIN COLUMN_ALIASES : COLUMN_ALIASES[i].k = key
    THEN COLUMN_ALIASES[CHOOSE i \in DOMAIN COLUMN_ALIASES : COLUMN_ALIASES[i].k = key].v
    ELSE Null

canonicalColumnFor(header) ==
    LET nk == normalizeKey(header)
        Direct(c) == normalizeKey(c) = nk
        direct == FirstWhere(EXPECTED_COLS, Direct)
        singular == SubSeq(nk, 1, Len(nk) - 1)
    IN  IF nk = <<>> THEN Null
        ELSE IF direct # Null THEN direct
        ELSE IF AliasLookup(nk) # Null THEN AliasLookup(nk)
        ELSE IF endsWith(nk, <<"s">>) /\ AliasLookup(singular) # Null THEN AliasLookup(singular)
        ELSE Null

----------------------------------------------------------------------------
(* addWorkbook: the rowsRaw.map callback *)

\* headerKeys.forEach(h => headerMap[normalizeKey(h)] = h): normalized -> original
\* header, a later header replacing an earlier one of the same normalized key
RECURSIVE BuildHeaderMap(_, _, _)
BuildHeaderMap(r, acc, i) ==
    IF i > Len(r) THEN acc
    ELSE BuildHeaderMap(r, ObjSet(acc, normalizeKey(r[i].k), r[i].k), i + 1)

\* headerMap[key] read for its truth value: Null when absent
headerMap(hm, key) == IF ObjHas(hm, key) THEN ObjGet(hm, key) ELSE Null

\* Object.entries(COLUMN_ALIASES).find(([k, v]) => v === col): its key
aliasCandidate(col) ==
    IF \E i \in DOMAIN COLUMN_ALIASES : COLUMN_ALIASES[i].v = col
    THEN COLUMN_ALIASES[CHOOSE i \in DOMAIN COLUMN_ALIASES :
              /\ COLUMN_ALIASES[i].v = col
              /\ \A j \in 1..(i - 1) : COLUMN_ALIASES[j].v # col].k
    ELSE Null

\* "check direct", else "try aliases"
FoundDirectOrAlias(hm, col) ==
    LET direct == headerMap(hm, normalizeKey(col))
        aliasNorm == aliasCandidate(col)
    IN  IF Truthy(direct) THEN direct
        ELSE IF aliasNorm # Null /\ Truthy(headerMap(hm, aliasNorm)) THEN headerMap(hm, aliasNorm)
        ELSE Null

\* "try any header that normalizes equal to desiredNorm"
FoundAnyHeader(r, col) ==
    LET desiredNorm == normalizeKey(col)
        Same(h) == normalizeKey(h) = desiredNorm
    IN  FirstWhere(ObjKeys(r), Same)

\* "check if header normalized contains desiredNorm or vice versa"
FoundSubstring(r, col) ==
    LET desiredNorm == normalizeKey(col)
        Near(h) == LET nh == normalizeKey(h)
                   IN  includes(nh, desiredNorm) \/ includes(desiredNorm, nh)
    IN  FirstWhere(ObjKeys(r), Near)

\* "Lastly check aliases map explicitly": the first alias key of col, in the
\* order of the object, that headerMap holds
FoundAliasScan(hm, col) ==
    LET Hit(i) == COLUMN_ALIASES[i].v = col /\ Truthy(headerMap(hm, COLUMN_ALIASES[i].k))
    IN  IF \E i \in DOMAIN COLUMN_ALIASES : Hit(i)
        THEN headerMap(hm, COLUMN_ALIASES[CHOOSE i \in DOMAIN COLUMN_ALIASES :
                                Hit(i) /\ \A j \in 1..(i - 1) : ~Hit(j)].k)
        ELSE Null

\* foundOriginal at the end of the EXPECTED_COLS.forEach callback, hm being
\* the headerMap of r
foundOriginalIn(hm, r, col) ==
    LET s12 == FoundDirectOrAlias(hm, col)
        s3 == FoundAnyHeader(r, col)
        s4 == FoundSubstring(r, col)
        s5 == FoundAliasScan(hm, col)
    IN  IF Truthy(s12) THEN s12
        ELSE IF Truthy(s3) THEN s3
        ELSE IF Truthy(s4) THEN s4
        ELSE IF Truthy(s5) THEN s5
        ELSE Null

foundOriginal(r, col) == foundOriginalIn(BuildHeaderMap(r, <<>>, 1), r, col)

\* nr[col] = foundOriginal ? r[foundOriginal] : ''
ResolvedValueIn(hm, r, col) ==
    LET found == foundOriginalIn(hm, r, col)
    IN  IF Truthy(found) THEN ObjGet(r, found) ELSE <<>>

ResolvedValue(r, col) == ResolvedValueIn(BuildHeaderMap(r, <<>>, 1), r, col)

\* EXPECTED_COLS.forEach(col => ...) from column i on
RECURSIVE ResolveCols(_, _, _, _)
ResolveCols(hm, r, acc, i) ==
    IF i > Len(EXPECTED_COLS) THEN acc
    ELSE ResolveCols(hm, r,
             ObjSet(acc, EXPECTED_COLS[i], ResolvedValueIn(hm, r, EXPECTED_COLS[i])), i + 1)

\* an extras pass that copies every header
KeptAsExtra_Every(k) == TRUE

\* whether the extras pass copies header k
KeptAsExtra(k) == ~Truthy(canonicalColumnFor(k))

RECURSIVE CopyExtras(_, _, _)
CopyExtras(r, acc, i) ==
    IF i > Len(r) THEN acc
    ELSE CopyExtras(r, IF KeptAsExtra(r[i].k) THEN ObjSet(acc, r[i].k, r[i].v) ELSE acc, i + 1)

\* the map callback: canonical columns first, then the extras
NormalizeRow(r) == CopyExtras(r, ResolveCols(BuildHeaderMap(r, <<>>, 1), r, <<>>, 1), 1)

----------------------------------------------------------------------------
(* String order, String(), Number() *)

\* the characters of the model in UTF-16 code unit order
CharOrder == <<"tab", " ", "%", ",", "-", ".", "/",
               "0","1","2","3","4","5","6","7","8","9",
               "A","B","C","D","E","F","G","H","I","J","K","L","M",
               "N","O","P","Q","R","S","T","U","V","W","X","Y","Z", "_",
               "a","b","c","d","e","f","g","h","i","j","k","l","m",
               "n","o","p","q","r","s","t","u","v","w","x","y","z", "|", "nbsp">>

OrdOf == [c \in Range(CharOrder) |-> CHOOSE i \in DOMAIN CharOrder : CharOrder[i] = c]

\* a < b as Array.prototype.sort compares two strings
StrLess(a, b) ==
    \E i \in 1..(Len(b)) :
        /\ \A j \in 1..(i - 1) : j <= Len(a) /\ a[j] = b[j]
        /\ (i > Len(a) \/ OrdOf[a[i]] < OrdOf[b[i]])

\* [...S].sort() of a set of strings
RECURSIVE SortStrings(_)
SortStrings(S) ==
    IF S = {} THEN <<>>
    ELSE LET least == CHOOSE x \in S : \A y \in S \ {x} : StrLess(x, y)
         IN  <<least>> \o SortStrings(S \ {least})

\* String(v ?? dflt)
StringOr(v, dflt) == IF v = Undefined THEN dflt ELSE v

RECURSIVE DigitsValue(_)
DigitsValue(s) ==
    IF s = <<>> THEN 0
    ELSE 10 * DigitsValue(SubSeq(s, 1, Len(s) - 1))
         + (CHOOSE d \in 0..9 : DigitChars[d + 1] = s[Len(s)])

\* Number(v) || 0 on the cell values of the model: the digits of a decimal
\* integer between optional blanks, 0 for the empty string and for NaN
NumberOrZero(v) ==
    LET t == trim(v)
    IN  IF t # <<>> /\ \A i \in DOMAIN t : t[i] \in Range(DigitChars) THEN DigitsValue(t) ELSE 0

\* arr.join(sep)
RECURSIVE Join(_, _)
Join(parts, sep) ==
    IF parts = <<>> THEN <<>>
    ELSE IF Len(parts) = 1 THEN parts[1]
    ELSE parts[1] \o sep \o Join(Tail(parts), sep)

StrAll == <<"a", "l", "l">>

makeKey(name) ==
    LET Underscored(s) ==
            \* replace(/\s+/g, '_'): one underscore for each run of blanks
            Tuple([i \in 1..Len(s) |-> IF IsSpace(s[i]) THEN "_" ELSE s[i]])
        RunStart(s, i) == ~IsSpace(s[i]) \/ i = 1 \/ ~IsSpace(s[i - 1])
        Collapsed(s) ==
            LET keep == {i \in DOMAIN s : RunStart(s, i)}
                nth[k \in 1..Cardinality(keep)] ==
                    CHOOSE i \in keep : Cardinality({j \in keep : j < i}) = k - 1
                und == Underscored(s)
            IN  Tuple([k \in 1..Cardinality(keep) |-> und[nth[k]]])
        Allowed(c) == IsWordChar(c) \/ c \in {"-", "."}
    IN  toLowerCase(SelectSeq(Collapsed(name), Allowed))

----------------------------------------------------------------------------
(* Status *)

StrDone == <<"d", "o", "n", "e">>

\* /done/i.test(s)
MatchDone(s) == includes(toLowerCase(s), StrDone)

\* /(in progress|inprogress)/i.test(s)
MatchInProgressLiteral(s) ==
    LET t == toLowerCase(s)
    IN  \/ includes(t, <<"i", "n", " ", "p", "r", "o", "g", "r", "e", "s", "s">>)
        \/ includes(t, <<"i", "n", "p", "r", "o", "g", "r", "e", "s", "s">>)

\* the rule without \s*: "in progress" or "inprogress" only
MatchInBlanksProgress_Literal(s) == MatchInProgressLiteral(s)

\* /in\s*progress/i.test(s)
MatchInBlanksProgress(s) ==
    LET t == toLowerCase(s)
    IN  \E i \in 1..Len(t) : \E j \in (i + 2)..Len(t) :
            /\ SubSeq(t, i, i + 1) = <<"i", "n">>
            /\ \A k \in (i + 2)..(j - 1) : IsSpace(t[k])
            /\ j + 7 <= Len(t)
            /\ SubSeq(t, j, j + 7) = <<"p", "r", "o", "g", "r", "e", "s", "s">>

\* /(not started|n\/a|na)/i.test(s)
MatchNotStartedLoose(s) ==
    LET t == toLowerCase(s)
    IN  \/ includes(t, <<"n", "o", "t", " ", "s", "t", "a", "r", "t", "e", "d">>)
        \/ includes(t, <<"n", "/", "a">>)
        \/ includes(t, <<"n", "a">>)

isCompleted(remarks) ==
    IF remarks = Undefined THEN FALSE ELSE MatchDone(remarks)

classifyStatus(remarks) ==
    LET rem == toLowerCase(trim(StringOr(remarks, <<>>)))
    IN  IF MatchDone(rem) THEN "Completed"
        ELSE IF MatchInBlanksProgress(rem) THEN "In Progress"
        ELSE IF rem = <<>> \/ rem \in {<<"n", "/", "a">>, <<"n", "a">>,
                                      <<"n", "o", "t", " ", "s", "t", "a", "r", "t", "e", "d">>}
             THEN "Not Started"
        ELSE "Not Started"

----------------------------------------------------------------------------
(* Row fields *)

ColNO == EXPECTED_COLS[1]

ColContainerNum == EXPECTED_COLS[2]

ColItemCount == EXPECTED_COLS[6]

ColFactory == EXPECTED_COLS[8]

ColItemcount == <<"I", "t", "e", "m", "c", "o", "u", "n", "t">>

----------------------------------------------------------------------------
(* renderFilteredAndLive: the filter predicates *)

\* the status part of the filter callback; fs is the value of statusFilter
StatusFilterPass(r, fs) ==
    LET rem == toLowerCase(StringOr(ObjGet(r, ColREMARKS), <<>>))
        isDone == MatchDone(rem)
        isInProg == MatchInProgressLiteral(rem)
        isNotStarted == trim(rem) = <<>> \/ MatchNotStartedLoose(rem)
    IN  \/ fs = "all"
        \/ /\ fs = "Finished" => isDone
           /\ fs = "In Progress" => isInProg
           /\ fs = "Not Started" => isNotStarted
           /\ fs = "Remaining" => ~isDone

\* Object.values(r).join(' ').toLowerCase().includes(q)
SearchPass(r, q) ==
    q = <<>> \/ includes(toLowerCase(Join(Tuple([i \in 1..Len(r) |-> r[i].v]), <<" ">>)), q)

ContainerPass(r, fc) ==
    fc = StrAll \/ StringOr(ObjGet(r, ColContainerNum), <<>>) = fc

FactoryPass(r, ff) ==
    ff = StrAll \/ StringOr(ObjGet(r, ColFactory), <<>>) = ff

\* the filter callback of renderFilteredAndLive
RowPasses(r, ff, fc, fs, s) ==
    /\ FactoryPass(r, ff)
    /\ ContainerPass(r, fc)
    /\ StatusFilterPass(r, fs)
    /\ SearchPass(r, toLowerCase(trim(s)))

\* arr.filter(P) as the increasing sequence of the indices kept
RECURSIVE FilterIndices(_, _, _)
FilterIndices(n, P(_), i) ==
    IF i > n THEN <<>>
    ELSE (IF P(i) THEN <<i>> ELSE <<>>) \o FilterIndices(n, P, i + 1)

----------------------------------------------------------------------------
(* Number arithmetic: IEEE 754 binary64 on positive numbers.  A significand *)
(* is the sequence of its 53 bits, least significant first; a double is     *)
(* [m |-> significand, e |-> exponent of the least significant bit].        *)

MantissaBits == 53

\* scale num up until num / den is in [1, 2): <<num, exponent of the leading bit>>
RECURSIVE Normalise(_, _, _)
Normalise(num, den, e) == IF num >= den THEN <<num, e>> ELSE Normalise(2 * num, den, e - 1)

\* the next n bits of rem / den, appended in front of acc (least significant
\* first), and the remainder left
RECURSIVE QuotientBits(_, _, _, _)
QuotientBits(rem, den, n, acc) ==
    IF n = 0 \/ rem < 0 \/ Len(acc) < 0 THEN <<acc, rem>>
    ELSE QuotientBits((2 * rem) % den, den, n - 1, <<(2 * rem) \div den>> \o acc)

\* bits + carry, least significant first
RECURSIVE BitsAddCarry(_, _, _, _)
BitsAddCarry(bits, carry, i, acc) ==
    IF i > Len(bits) \/ Len(acc) < 0 \/ carry < 0 THEN <<acc, carry>>
    ELSE BitsAddCarry(bits, (bits[i] + carry) \div 2, i + 1, Append(acc, (bits[i] + carry) % 2))

\* round the exact positive value bits * 2^e (plus a non-zero tail below the
\* last bit when sticky) to 53 significant bits, ties to even
RoundToDouble(bits, e, sticky) ==
    LET d == Len(bits) - MantissaBits
        kept == SubSeq(bits, d + 1, Len(bits))
        guard == IF d >= 1 THEN bits[d] ELSE 0
        rest == sticky \/ \E i \in 1..(d - 1) : bits[i] = 1
        up == guard = 1 /\ (rest \/ kept[1] = 1)
        inc == BitsAddCarry(kept, 1, 1, <<>>)
    IN  IF ~up THEN [m |-> kept, e |-> e + d]
        ELSE IF inc[2] = 1 THEN [m |-> Tail(inc[1]) \o <<1>>, e |-> e + d + 1]
        ELSE [m |-> inc[1], e |-> e + d]

\* a / b for integers 0 < a, 0 < b: long division to the leading bit, 52 more
\* bits and a guard bit, the remainder being the tail
DoubleDiv(a, b) ==
    LET n == Normalise(a, b, 0)
        q == QuotientBits(n[1] - b, b, MantissaBits, <<>>)
    IN  RoundToDouble(q[1] \o <<1>>, n[2] - MantissaBits, q[2] # 0)

\* the columns of x.m * 100 (100 = 2^6 + 2^5 + 2^2) summed with their carries
RECURSIVE Times100Bits(_, _, _, _)
Times100Bits(m, carry, i, acc) ==
    IF i > MantissaBits + 7 \/ carry < 0 \/ Len(acc) < 0 THEN acc
    ELSE LET at(j) == IF j >= 1 /\ j <= MantissaBits THEN m[j] ELSE 0
             column == at(i - 6) + at(i - 5) + at(i - 2) + carry
         IN  Times100Bits(m, column \div 2, i + 1, Append(acc, column % 2))

\* x * 100
DoubleTimes100(x) ==
    LET all == Times100Bits(x.m, 0, 1, <<>>)
        p == IF all[MantissaBits + 7] = 1 THEN all ELSE SubSeq(all, 1, MantissaBits + 6)
    IN  RoundToDouble(p, x.e, FALSE)

RECURSIVE BitsValue(_)
BitsValue(b) == IF b = <<>> THEN 0 ELSE Head(b) + 2 * BitsValue(Tail(b))

\* Math.round of a positive double: floor(x + 0.5)
MathRound(x) ==
    LET frac == 0 - x.e
    IN  IF frac <= 0 THEN BitsValue([i \in 1..(0 - frac) |-> 0] \o x.m)
        ELSE IF frac > MantissaBits THEN 0
        ELSE BitsValue(SubSeq(x.m, frac + 1, MantissaBits)) + x.m[frac]

\* total === 0 ? 0 : Math.round((finished / total) * 100)
RoundedPercent(finished, total) ==
    IF total = 0 \/ finished = 0 THEN 0
    ELSE MathRound(DoubleTimes100(DoubleDiv(finished, total)))

\* String(n) of a natural number
RECURSIVE NumToStr(_)
NumToStr(n) ==
    IF n < 10 THEN <<DigitChars[n + 1]>>
    ELSE NumToStr(n \div 10) \o <<DigitChars[(n % 10) + 1]>>

\* pct + "%"
PercentText(finished, total) == NumToStr(RoundedPercent(finished, total)) \o <<"%">>

----------------------------------------------------------------------------
(* renderSummary, updateMultipackNormalCounts, renderCharts *)

Select(rows, idx) == Tuple([i \in 1..Len(idx) |-> rows[idx[i]]])

renderSummary(rows) ==
    LET status == Tuple([i \in 1..Len(rows) |-> classifyStatus(ObjGet(rows[i], ColREMARKS))])
        Is(s) == Cardinality({i \in DOMAIN rows : status[i] = s})
        completed == Is("Completed")
        inProgress == Is("In Progress")
        notStarted == Is("Not Started")
    IN  [total |-> Len(rows), completed |-> completed, inProgress |-> inProgress,
         notStarted |-> notStarted, remaining |-> inProgress + notStarted,
         percent |-> RoundedPercent(completed, Len(rows))]

\* Number(r.ItemCount ?? r.Itemcount ?? 0) || 0
ItemCountOf(r) ==
    LET a == ObjGet(r, ColItemCount)
        b == ObjGet(r, ColItemcount)
    IN  IF a # Undefined THEN NumberOrZero(a)
        ELSE IF b # Undefined THEN NumberOrZero(b)
        ELSE 0

updateMultipackNormalCounts(rows) ==
    [multi |-> Cardinality({i \in DOMAIN rows : ItemCountOf(rows[i]) > 1}),
     normal |-> Cardinality({i \in DOMAIN rows : ~(ItemCountOf(rows[i]) > 1)})]

StrNA == <<"N", "A">>

StrALL == <<"A", "L", "L">>

StrUNKNOWN == <<"U", "N", "K", "N", "O", "W", "N">>

\* String(r.ContainerNum ?? "NA")
ContainerGroupKey(r) == StringOr(ObjGet(r, ColContainerNum), StrNA)

\* byContainer after rows.forEach: the keys, and the counts under a key
ByContainerKeys(rows) == {ContainerGroupKey(rows[i]) : i \in DOMAIN rows}

ByContainerTotal(rows, cont) ==
    Cardinality({i \in DOMAIN rows : ContainerGroupKey(rows[i]) = cont})

ByContainerFinished(rows, cont) ==
    Cardinality({i \in DOMAIN rows :
        ContainerGroupKey(rows[i]) = cont /\ isCompleted(ObjGet(rows[i], ColREMARKS))})

\* the data handed to the two charts
renderCharts(rows) ==
    LET labels == SortStrings(ByContainerKeys(rows))
        finishedData == [i \in 1..Len(labels) |-> ByContainerFinished(rows, labels[i])]
        remainingData == [i \in 1..Len(labels) |->
            ByContainerTotal(rows, labels[i]) - ByContainerFinished(rows, labels[i])]
        total == Cardinality(DOMAIN rows)
        finished == Cardinality({i \in DOMAIN rows : isCompleted(ObjGet(rows[i], ColREMARKS))})
    IN  [labels |-> labels, finished |-> finishedData, remaining |-> remainingData,
         donut |-> <<finished, IF total - finished > 0 THEN total - finished ELSE 0>>]

----------------------------------------------------------------------------
(* exportWorkbookWithAnalytics *)

\* the records of the Analytics sheet of rows: one per container, then ALL
buildAnalytics(rows) ==
    LET keys == SortStrings(ByContainerKeys(rows))
        Rec(cont) ==
            [Container |-> cont,
             TotalBoxes |-> ByContainerTotal(rows, cont),
             Finished |-> ByContainerFinished(rows, cont),
             Remaining |-> ByContainerTotal(rows, cont) - ByContainerFinished(rows, cont),
             CompletionPercent |->
                 PercentText(ByContainerFinished(rows, cont), ByContainerTotal(rows, cont))]
        RECURSIVE Sum(_, _, _)
        Sum(F(_, _), s, i) == IF i > Len(s) THEN 0 ELSE F(rows, s[i]) + Sum(F, s, i + 1)
        total == Sum(ByContainerTotal, keys, 1)
        finished == Sum(ByContainerFinished, keys, 1)
    IN  Tuple([i \in 1..Len(keys) |-> Rec(keys[i])])
        \o << [Container |-> StrALL, TotalBoxes |-> total, Finished |-> finished,
               Remaining |-> total - finished,
               CompletionPercent |-> PercentText(finished, total)] >>

\* the order with the first two factories exchanged
factoryOrder_Exchanged == << <<"F", "1", "0", "0">>, <<"F", "2", "0", "0">>, <<"A", "I", "O">> >>

factoryOrder == << <<"F", "2", "0", "0">>, <<"F", "1", "0", "0">>, <<"A", "I", "O">> >>

\* r.Factory || "UNKNOWN"
FactoryOrUnknown(r) ==
    IF Truthy(ObjGet(r, ColFactory)) THEN ObjGet(r, ColFactory) ELSE StrUNKNOWN

\* [...new Set(entry.rows.map(r => r.Factory || "UNKNOWN"))]: first occurrences
factoriesOf(rows) ==
    LET firsts == FilterIndices(Len(rows),
                      LAMBDA i : \A j \in 1..(i - 1) : FactoryOrUnknown(rows[j]) # FactoryOrUnknown(rows[i]),
                      1)
    IN  Tuple([k \in 1..Len(firsts) |-> FactoryOrUnknown(rows[firsts[k]])])

\* entry.rows.filter(r => r.Factory === fac)
RowsOfFactory(rows, fac) ==
    Select(rows, FilterIndices(Len(rows), LAMBDA i : ObjGet(rows[i], ColFactory) = fac, 1))

\* `Analytics_${fac}`.replace(/[^A-Za-z0-9_]/g, "")
FactorySheetName(fac) ==
    SelectSeq(<<"A", "n", "a", "l", "y", "t", "i", "c", "s", "_">> \o fac, IsWordChar)

\* the records of the Summary sheet
buildSummarySheet(rows) ==
    LET Rec(fac) ==
            LET filtered == RowsOfFactory(rows, fac)
                total == Len(filtered)
                finished == Cardinality({i \in DOMAIN filtered :
                                isCompleted(ObjGet(filtered[i], ColREMARKS))})
            IN  [Factory |-> fac, TotalBoxes |-> total, Completed |-> finished,
                 Remaining |-> total - finished,
                 CompletionPercent |-> PercentText(finished, total)]
        listed == SelectSeq(factoryOrder, LAMBDA fac : Len(RowsOfFactory(rows, fac)) # 0)
        recs == Tuple([i \in 1..Len(listed) |-> Rec(listed[i])])
        RECURSIVE Sum(_, _)
        Sum(F(_), i) == IF i > Len(recs) THEN 0 ELSE F(recs[i]) + Sum(F, i + 1)
        allTotal == Sum(LAMBDA x : x.TotalBoxes, 1)
        allFinished == Sum(LAMBDA x : x.Completed, 1)
    IN  recs \o << [Factory |-> StrALL, TotalBoxes |-> allTotal, Completed |-> allFinished,
                    Remaining |-> allTotal - allFinished,
                    CompletionPercent |-> PercentText(allFinished, allTotal)] >>

\* out[c] = r[c] ?? "" for the canonical columns, then the other keys of r
DataRow(r) ==
    LET canon == [c \in 1..Len(EXPECTED_COLS) |->
                    [k |-> EXPECTED_COLS[c], v |-> StringOr(ObjGet(r, EXPECTED_COLS[c]), <<>>)]]
        others == SelectSeq(r, LAMBDA e : e.k \notin Range(EXPECTED_COLS))
    IN  canon \o others

\* the sheets of the workbook handed to XLSX.writeFile
ExportedWorkbook(entry) ==
    LET factories == factoriesOf(entry.rows)
    IN  [name |-> entry.name,
         Data |-> [i \in 1..Len(entry.rows) |-> DataRow(entry.rows[i])],
         Analytics |-> buildAnalytics(entry.rows),
         perFactory |-> [i \in 1..Len(factories) |->
             [fac |-> factories[i], sheet |-> FactorySheetName(factories[i]),
              records |-> buildAnalytics(RowsOfFactory(entry.rows, factories[i]))]],
         Summary |-> buildSummarySheet(entry.rows)]

----------------------------------------------------------------------------
(* The page: state and rendering *)

NoEdit == <<>>

\* the page before any file is loaded
InitApp ==
    /\ files = <<>>
    /\ activeKey = Null
    /\ factoryOptions = <<>>
    /\ containerOptions = {}
    /\ fFactory = StrAll
    /\ fContainer = StrAll
    /\ fStatus = "all"
    /\ search = <<>>
    /\ displayed = <<>>
    /\ summary = renderSummary(<<>>)
    /\ chart = renderCharts(<<>>)
    /\ cardCounts = updateMultipackNormalCounts(<<>>)
    /\ rowsCount = 0
    /\ exported = <<>>
    /\ lastEdit = NoEdit
    /\ loaded = {}
    /\ edits = 0
    /\ filterChanges = 0

\* the options buildFactoryFilter writes after "All": the trimmed, non-empty
\* factories, sorted
FactoryOptionsOf(rows) ==
    SortStrings({trim(StringOr(ObjGet(rows[i], ColFactory), <<>>)) : i \in DOMAIN rows} \ {<<>>})

\* the options buildContainerFilter writes after "All" (their order is not
\* modelled)
ContainerOptionsOf(rows) ==
    {trim(StringOr(ObjGet(rows[i], ColContainerNum), <<>>)) : i \in DOMAIN rows} \ {<<>>}

\* filtered, as the indices of allRows that pass the filter callback
FilteredIndices(rows, ff, fc, fs, s) ==
    FilterIndices(Len(rows), LAMBDA i : RowPasses(rows[i], ff, fc, fs, s), 1)

\* renderTable, renderSummary, renderCharts, updateMultipackNormalCounts and
\* rowsCount of the rows of `rows` at the indices idx
RenderRows(rows, idx) ==
    LET filtered == Select(rows, idx)
    IN  /\ displayed' = idx
        /\ summary' = renderSummary(filtered)
        /\ chart' = renderCharts(filtered)
        /\ cardCounts' = updateMultipackNormalCounts(filtered)
        /\ rowsCount' = Len(filtered)

\* renderFilteredAndLive() once files, activeKey and the controls have their
\* new values
renderFilteredAndLive ==
    IF activeKey' = Null
    THEN UNCHANGED <<displayed, summary, chart, cardCounts, rowsCount>>
    ELSE RenderRows(files'[activeKey'].rows,
                    FilteredIndices(files'[activeKey'].rows, fFactory', fContainer', fStatus', search'))

\* setActiveFile(key), files[key] existing: both selects are rebuilt and fall
\* back to "All"
setActiveFile(key) ==
    /\ activeKey' = key
    /\ factoryOptions' = FactoryOptionsOf(files'[key].rows)
    /\ containerOptions' = ContainerOptionsOf(files'[key].rows)
    /\ fFactory' = StrAll
    /\ fContainer' = StrAll
    /\ UNCHANGED <<fStatus, search>>
    /\ renderFilteredAndLive

----------------------------------------------------------------------------
(* Handlers *)

\* addWorkbook(key, name, workbook), rowsRaw being the rows of the target sheet
addWorkbook(key, name, rowsRaw) ==
    LET normalized == Tuple([i \in 1..Len(rowsRaw) |-> NormalizeRow(rowsRaw[i])])
        columns == IF Len(normalized) > 0 THEN ObjKeys(normalized[1]) ELSE EXPECTED_COLS
    IN  /\ files' = (key :> [name |-> name, rows |-> normalized, columns |-> columns]) @@ files
        /\ IF activeKey = Null THEN setActiveFile(key)
           ELSE /\ UNCHANGED <<activeKey, factoryOptions, containerOptions,
                               fFactory, fContainer, fStatus, search>>
                /\ IF activeKey = key THEN renderFilteredAndLive
                   ELSE UNCHANGED <<displayed, summary, chart, cardCounts, rowsCount>>

\* reader.onload / the fetch continuation: a file of the pool has been read
FileLoaded(wb) ==
    /\ wb.name \notin loaded
    /\ loaded' = loaded \cup {wb.name}
    /\ addWorkbook(makeKey(wb.name), wb.name, wb.rows)
    /\ exported' = <<>>
    /\ lastEdit' = NoEdit
    /\ UNCHANGED <<edits, filterChanges>>
    /\ UNCHANGED resolveVars

\* filesSelect change
FilesSelectChange(k) ==
    /\ k \in DOMAIN files
    /\ k # activeKey
    /\ UNCHANGED files
    /\ setActiveFile(k)
    /\ exported' = <<>>
    /\ lastEdit' = NoEdit
    /\ UNCHANGED <<loaded, edits, filterChanges>>
    /\ UNCHANGED resolveVars

FactoryFilterChange(v) ==
    /\ v \in Range(factoryOptions) \cup {StrAll}
    /\ v # fFactory
    /\ edits + filterChanges < MaxInputs
    /\ filterChanges' = filterChanges + 1
    /\ fFactory' = v
    /\ UNCHANGED <<files, activeKey, factoryOptions, containerOptions, fContainer, fStatus, search>>
    /\ renderFilteredAndLive
    /\ exported' = <<>>
    /\ lastEdit' = NoEdit
    /\ UNCHANGED <<loaded, edits>>
    /\ UNCHANGED resolveVars

ContainerFilterChange(v) ==
    /\ v \in containerOptions \cup {StrAll}
    /\ v # fContainer
    /\ edits + filterChanges < MaxInputs
    /\ filterChanges' = filterChanges + 1
    /\ fContainer' = v
    /\ UNCHANGED <<files, activeKey, factoryOptions, containerOptions, fFactory, fStatus, search>>
    /\ renderFilteredAndLive
    /\ exported' = <<>>
    /\ lastEdit' = NoEdit
    /\ UNCHANGED <<loaded, edits>>
    /\ UNCHANGED resolveVars

StatusOptions == {"all", "Finished", "In Progress", "Not Started", "Remaining"}

StatusFilterChange(v) ==
    /\ v \in StatusOptions
    /\ v # fStatus
    /\ edits + filterChanges < MaxInputs
    /\ filterChanges' = filterChanges + 1
    /\ fStatus' = v
    /\ UNCHANGED <<files, activeKey, factoryOptions, containerOptions, fFactory, fContainer, search>>
    /\ renderFilteredAndLive
    /\ exported' = <<>>
    /\ lastEdit' = NoEdit
    /\ UNCHANGED <<loaded, edits>>
    /\ UNCHANGED resolveVars

SearchInput(text) ==
    /\ text # search
    /\ edits + filterChanges < MaxInputs
    /\ filterChanges' = filterChanges + 1
    /\ search' = text
    /\ UNCHANGED <<files, activeKey, factoryOptions, containerOptions, fFactory, fContainer, fStatus>>
    /\ renderFilteredAndLive
    /\ exported' = <<>>
    /\ lastEdit' = NoEdit
    /\ UNCHANGED <<loaded, edits>>
    /\ UNCHANGED resolveVars

StrSep == <<"|", "|">>

keyProps == <<ColNO, ColBoxNum, ColContainerNum>>

\* keyProps.map(k => r[k] ?? '').join('||')
identifier(r) == Join([i \in 1..Len(keyProps) |-> StringOr(ObjGet(r, keyProps[i]), <<>>)], StrSep)

\* allRows.findIndex(P): the first index that satisfies P, 0 for -1
FindIndex(rows, P(_)) ==
    LET hits == {i \in DOMAIN rows : P(rows[i])}
    IN  IF hits # {} THEN CHOOSE i \in hits : \A j \in hits : i <= j ELSE 0

\* idx of the two edit handlers for the displayed row r
EditTarget(allRows, r) ==
    LET primary == FindIndex(allRows, LAMBDA rr : identifier(rr) = identifier(r))
        fallback == FindIndex(allRows, LAMBDA rr :
            /\ StringOr(ObjGet(rr, ColBoxNum), <<>>) = StringOr(ObjGet(r, ColBoxNum), <<>>)
            /\ StringOr(ObjGet(rr, ColContainerNum), <<>>) = StringOr(ObjGet(r, ColContainerNum), <<>>))
    IN  IF primary # 0 THEN primary ELSE fallback

\* the body shared by the select change handler and the cell input handler:
\* the cell of column c in the p-th displayed row now reads val
EditCell(p, c, val) ==
    LET allRows == files[activeKey].rows
        r == allRows[displayed[p]]
        idx == EditTarget(allRows, r)
    IN  /\ edits + filterChanges < MaxInputs
        /\ edits' = edits + 1
        /\ lastEdit' = [row |-> displayed[p], col |-> c, val |-> val]
        /\ exported' = <<>>
        /\ UNCHANGED <<activeKey, factoryOptions, containerOptions,
                       fFactory, fContainer, fStatus, search, loaded, filterChanges>>
        /\ UNCHANGED resolveVars
        /\ IF idx # 0
           THEN /\ files' = [files EXCEPT ![activeKey].rows[idx] = ObjSet(@, c, val)]
                /\ renderFilteredAndLive
           ELSE UNCHANGED <<files, displayed, summary, chart, cardCounts, rowsCount>>

RemarkOptions == {<<>>, <<"D", "o", "n", "e">>, <<"I", "n", " ", "P", "r", "o", "g", "r", "e", "s", "s">>}

\* the option renderTable marks selected for the cell text: the one equal to
\* it up to letter case, the first one when there is none
ShownOption(text) ==
    IF \E o \in RemarkOptions : toLowerCase(o) = toLowerCase(text)
    THEN CHOOSE o \in RemarkOptions : toLowerCase(o) = toLowerCase(text)
    ELSE <<>>

\* the change handler of the REMARKS select of the p-th displayed row
RemarksSelectChange(p, val) ==
    /\ p \in DOMAIN displayed
    /\ val \in RemarkOptions
    /\ val # ShownOption(StringOr(ObjGet(files[activeKey].rows[displayed[p]], ColREMARKS), <<>>))
    /\ EditCell(p, ColREMARKS, val)

\* the input handler of the cell of column c in the p-th displayed row
CellInput(p, c, text) ==
    /\ p \in DOMAIN displayed
    /\ c \in Range(files[activeKey].columns) \ {ColREMARKS}
    /\ text # StringOr(ObjGet(files[activeKey].rows[displayed[p]], c), <<>>)
    /\ EditCell(p, c, text)

ApplyOptions == RemarkOptions

\* a loop that leaves the rows in the reverse order
ApplyAllRows_Reversed(rows, ff, fc, fs, s, val) ==
    Tuple([i \in 1..Len(rows) |->
        IF RowPasses(rows[Len(rows) + 1 - i], ff, fc, fs, s)
        THEN ObjSet(rows[Len(rows) + 1 - i], ColREMARKS, val) ELSE rows[Len(rows) + 1 - i]])

\* allRows.forEach(r => { ... if (visible) r.REMARKS = val; })
ApplyAllRows(rows, ff, fc, fs, s, val) ==
    Tuple([i \in 1..Len(rows) |->
        IF RowPasses(rows[i], ff, fc, fs, s) THEN ObjSet(rows[i], ColREMARKS, val) ELSE rows[i]])

\* applyAllBtn click, applyRemarkSelect.value being val: REMARKS of every row
\* that passes the filter controls becomes val
ApplyAllClick(val) ==
    LET rows == files[activeKey].rows
    IN  /\ activeKey # Null
        /\ val \in ApplyOptions
        /\ edits + filterChanges < MaxInputs
        /\ edits' = edits + 1
        /\ files' = [files EXCEPT ![activeKey].rows =
                ApplyAllRows(rows, fFactory, fContainer, fStatus, search, val)]
        /\ UNCHANGED <<activeKey, factoryOptions, containerOptions,
                       fFactory, fContainer, fStatus, search, loaded, filterChanges>>
        /\ renderFilteredAndLive
        /\ exported' = <<>>
        /\ lastEdit' = NoEdit
        /\ UNCHANGED resolveVars

\* the filter callback of the two card click handlers: the container, status
\* and search controls, then ItemCount > 1 (multipack) or ItemCount === 1
CardPasses(r, fc, fs, s, multipack) ==
    /\ ContainerPass(r, fc)
    /\ StatusFilterPass(r, fs)
    /\ SearchPass(r, toLowerCase(trim(s)))
    /\ IF multipack THEN ItemCountOf(r) > 1 ELSE ItemCountOf(r) = 1

\* multipackCard click (multipack) and normalPackCard click (~multipack)
CardClick(multipack) ==
    LET rows == files[activeKey].rows
    IN  /\ activeKey # Null
        /\ RenderRows(rows, FilterIndices(Len(rows),
                LAMBDA i : CardPasses(rows[i], fContainer, fStatus, search, multipack), 1))
        /\ UNCHANGED <<files, activeKey, factoryOptions, containerOptions,
                       fFactory, fContainer, fStatus, search, loaded, edits, filterChanges>>
        /\ exported' = <<>>
        /\ lastEdit' = NoEdit
        /\ UNCHANGED resolveVars

\* exportBtn click
ExportClick ==
    /\ activeKey # Null
    /\ exported' = ExportedWorkbook(files[activeKey])
    /\ lastEdit' = NoEdit
    /\ UNCHANGED <<files, activeKey, factoryOptions, containerOptions, fFactory, fContainer,
                   fStatus, search, displayed, summary, chart, cardCounts, rowsCount,
                   loaded, edits, filterChanges>>
    /\ UNCHANGED resolveVars

----------------------------------------------------------------------------
(* Inputs *)

HdrNO == <<"N", "O">>

\* a sheet row with the headers NO, ContainerNum, BoxNum, ItemCount, Factory, REMARKS
SheetRow(no, cont, box, item, fac, rem) ==
    << [k |-> HdrNO, v |-> no], [k |-> ColContainerNum, v |-> cont], [k |-> ColBoxNum, v |-> box],
       [k |-> ColItemCount, v |-> item], [k |-> ColFactory, v |-> fac], [k |-> ColREMARKS, v |-> rem] >>

StrF200 == factoryOrder[1]

StrF100 == factoryOrder[2]

TextDone == <<"D", "o", "n", "e">>

TextInProgress == <<"I", "n", " ", "P", "r", "o", "g", "r", "e", "s", "s">>

\* the files the user can open.  In the first, rows 1 and 3 have the same
\* (NO, BoxNum, ContainerNum), and the key cells of rows 1 and 2 hold the
\* character of the separator
WorkbookPool == {
    [name |-> <<"A", ".", "x", "l", "s", "x">>,
     rows |-> << SheetRow(<<"1">>, <<"1">>, <<"|", "|", "7">>, <<"1">>, StrF200, TextDone),
                 SheetRow(<<"1", "|">>, <<"1">>, <<"|", "7">>, <<"3">>, StrF200, <<>>),
                 SheetRow(<<"1">>, <<"1">>, <<"|", "|", "7">>, <<"2">>, <<>>, TextInProgress) >>],
    [name |-> <<"b", " ", "1", ".", "x", "l", "s", "x">>,
     rows |-> << SheetRow(<<"5">>, <<"2">>, <<"8">>, <<"1">>, StrF100, <<>>) >>] }

\* what the user types into a cell, and the cells typed into
CellTexts == {<<"2">>}

EditCols == {ColNO, ColItemCount}

SearchTexts == {<<>>, <<"D", "O", "N", "E", " ">>}

----------------------------------------------------------------------------
(* The page in use *)

Init ==
    /\ InitApp
    /\ rawRow = <<>>
    /\ nr = <<>>
    /\ resolved = FALSE

Load == \E wb \in WorkbookPool : FileLoaded(wb)

SwitchFile == \E k \in DOMAIN files : FilesSelectChange(k)

FilterFactory == \E v \in Range(factoryOptions) \cup {StrAll} : FactoryFilterChange(v)

FilterContainer == \E v \in containerOptions \cup {StrAll} : ContainerFilterChange(v)

FilterStatus == \E v \in StatusOptions : StatusFilterChange(v)

Search == \E text \in SearchTexts : SearchInput(text)

SelectRemark == \E p \in DOMAIN displayed : \E val \in RemarkOptions : RemarksSelectChange(p, val)

TypeCell == \E p \in DOMAIN displayed : \E c \in EditCols : \E text \in CellTexts : CellInput(p, c, text)

ApplyAll == \E val \in ApplyOptions : ApplyAllClick(val)

ClickCard == \E multipack \in BOOLEAN : CardClick(multipack)

Next ==
    \/ Load
    \/ SwitchFile
    \/ FilterFactory
    \/ FilterContainer
    \/ FilterStatus
    \/ Search
    \/ SelectRemark
    \/ TypeCell
    \/ ApplyAll
    \/ ClickCard
    \/ ExportClick

Spec == Init /\ [][Next]_vars

----------------------------------------------------------------------------
(* Column resolution of one raw row *)

HeaderPool == {
    <<"N", "O">>,
    <<"B", "a", "s", "e", "B", "o", "x">>,
    <<"N", "o", "t", "e", "s">>,
    <<"B", "o", "x", "N", "u", "m">>,
    <<"B", "o", "x", " ", "N", "o">>,
    <<"b", "o", "x", " ", "n", "o">>,
    <<"B", "o", "x", " ", "N", "u", "m", "b", "e", "r">>,
    <<"b", "o", "x", "_", "n", "u", "m", "b", "e", "r">>,
    <<"R", "E", "M", "A", "R", "K", "S">>,
    <<"r", "e", "m", "a", "r", "k", "s", " ">>,
    <<"R", "e", "m", "a", "r", "k">>,
    <<"S", "t", "a", "t", "u", "s">>,
    <<"I", "n", "s", "p", "e", "c", "t", "i", "o", "n", " ", "S", "t", "a", "t", "u", "s">>,
    <<"O", "l", "d", " ", "R", "e", "m", "a", "r", "k", "s">>,
    <<"-", "-">> }

\* the cell under the i-th header: one value per position, so a value names
\* the header it came from
CellValues == << <<"a">>, <<"b">>, <<"c">>, <<"d">>, <<"e">> >>

\* the raw rows sheet_to_json can hand over: distinct headers, in sheet order
RawRows ==
    UNION { { [i \in 1..n |-> [k |-> hs[i], v |-> CellValues[i]]] :
                hs \in { f \in [1..n -> HeaderPool] : \A i, j \in 1..n : i # j => f[i] # f[j] } } :
            n \in 0..MaxHeaders }

InitResolve ==
    /\ InitApp
    /\ rawRow \in RawRows
    /\ nr = <<>>
    /\ resolved = FALSE

ResolveRow ==
    /\ ~resolved
    /\ nr' = NormalizeRow(rawRow)
    /\ resolved' = TRUE
    /\ UNCHANGED rawRow
    /\ UNCHANGED appVars

NextResolve == ResolveRow

SpecResolve == InitResolve /\ [][NextResolve]_vars

----------------------------------------------------------------------------
(* Claims about column resolution, checked under SpecResolve *)

\* the positions of the raw headers that normalize to the key of column col
ExactHeaders(r, col) == {i \in DOMAIN r : normalizeKey(r[i].k) = normalizeKey(col)}

\* the positions of the raw headers that normalize to the key of an alias of col
AliasHeaders(r, col) ==
    {i \in DOMAIN r : \E a \in DOMAIN COLUMN_ALIASES :
        COLUMN_ALIASES[a].v = col /\ normalizeKey(r[i].k) = COLUMN_ALIASES[a].k}

\* the positions of the raw headers the substring heuristic accepts for col
SubstringHeaders(r, col) ==
    {i \in DOMAIN r : \/ includes(normalizeKey(r[i].k), normalizeKey(col))
                      \/ includes(normalizeKey(col), normalizeKey(r[i].k))}

\* every header of the row has a non-empty normalized key
NamedHeaders(r) == \A i \in DOMAIN r : normalizeKey(r[i].k) # <<>>

\* C1: for every canonical column C, an exact header decides C; failing that,
\* a header that normalizes to the key of any alias of C decides C, whatever
\* the substring heuristic would pick; the heuristic decides C only when
\* neither exists.  Rows with a header of empty normalized key are left out.
C1_ResolutionPriority ==
    (resolved /\ NamedHeaders(rawRow)) =>
        \A c \in DOMAIN EXPECTED_COLS :
            LET col == EXPECTED_COLS[c]
                exact == ExactHeaders(rawRow, col)
                alias == AliasHeaders(rawRow, col)
            IN  /\ exact # {} => ObjGet(nr, col) \in {rawRow[i].v : i \in exact}
                /\ (exact = {} /\ alias # {}) => ObjGet(nr, col) \in {rawRow[i].v : i \in alias}

\* C2: a raw row whose only header is a spelling of an alias (in any letter
\* case) resolves the alias's canonical column to that header's value.
C2_EveryAliasHonoured ==
    (resolved /\ Len(rawRow) = 1) =>
        \A a \in DOMAIN COLUMN_ALIASES :
            toLowerCase(rawRow[1].k) = COLUMN_ALIASES[a].k =>
                ObjGet(nr, COLUMN_ALIASES[a].v) = rawRow[1].v

\* C6: every normalized row holds every canonical column, in schema order,
\* empty when no header relates to it; no header copied as an extra is named
\* as a canonical column, so the extras leave the resolved values alone.
C6_NormalizedRowInvariant ==
    resolved =>
        /\ Len(nr) >= Len(EXPECTED_COLS)
        /\ \A c \in DOMAIN EXPECTED_COLS :
              LET col == EXPECTED_COLS[c]
              IN  /\ nr[c].k = col
                  /\ nr[c].v = ResolvedValue(rawRow, col)
                  /\ (ExactHeaders(rawRow, col) \cup AliasHeaders(rawRow, col)
                        \cup SubstringHeaders(rawRow, col) = {}) => nr[c].v = <<>>
        /\ \A i \in DOMAIN rawRow :
              KeptAsExtra(rawRow[i].k) => rawRow[i].k \notin Range(EXPECTED_COLS)
        /\ \A i \in DOMAIN nr :
              i > Len(EXPECTED_COLS) => nr[i].k \notin Range(EXPECTED_COLS)
        /\ \A i, j \in DOMAIN nr : nr[i].k = nr[j].k => i = j

\* C6 witness: a resolved row with a header named as a canonical column, an
\* extra, and a canonical column left empty
C6_Witness ==
    /\ resolved
    /\ \E i \in DOMAIN rawRow : rawRow[i].k \in Range(EXPECTED_COLS)
    /\ Len(nr) > Len(EXPECTED_COLS)
    /\ \E c \in DOMAIN EXPECTED_COLS : foundOriginal(rawRow, EXPECTED_COLS[c]) = Null

\* C7: every raw header that is the source of no canonical column is in the
\* normalized row under its own name with its own value.  Rows with a header
\* of empty normalized key are left out.
C7_NoRawColumnLost ==
    (resolved /\ NamedHeaders(rawRow)) =>
        \A i \in DOMAIN rawRow :
            (\A c \in DOMAIN EXPECTED_COLS : foundOriginal(rawRow, EXPECTED_COLS[c]) # rawRow[i].k)
                => (ObjHas(nr, rawRow[i].k) /\ ObjGet(nr, rawRow[i].k) = rawRow[i].v)

----------------------------------------------------------------------------
(* Claims about the edit handlers, checked under Spec *)

\* (NO, BoxNum, ContainerNum) of a row, each as String(r[k] ?? '')
KeyTuple(r) == Tuple([i \in 1..Len(keyProps) |-> StringOr(ObjGet(r, keyProps[i]), <<>>)])

\* the first row in dataset order with the key tuple of row i
FirstWithKeyOf(rows, i) ==
    CHOOSE j \in DOMAIN rows :
        /\ KeyTuple(rows[j]) = KeyTuple(rows[i])
        /\ \A k \in 1..(j - 1) : KeyTuple(rows[k]) # KeyTuple(rows[i])

\* C5: an edit of a cell of a displayed row writes the new value into that
\* field of the first row, in dataset order, whose (NO, BoxNum, ContainerNum)
\* equals the edited row's; every other field and every other row stays.
C5_EditTargeting ==
    [][(edits' = edits + 1 /\ lastEdit' # NoEdit) =>
          LET rows == files[activeKey].rows
              first == FirstWithKeyOf(rows, lastEdit'.row)
          IN  files' = [files EXCEPT ![activeKey].rows[first] =
                            ObjSet(@, lastEdit'.col, lastEdit'.val)]]_vars

----------------------------------------------------------------------------
(* Status classification: one-row files whose REMARKS is any short text *)

\* the longest REMARKS text, in tokens
MaxTokens == 3

StatusTokens == { <<"D", "o", "n", "e">>, <<"I", "n">>,
                  <<"p", "r", "o", "g", "r", "e", "s", "s">>, <<" ">>, <<"tab">> }

\* the texts rule 3 of classifyStatus names, and two it does not
WholeTexts == { <<"n", "a">>, <<"N", "/", "A">>,
               <<"N", "o", "t", " ", "s", "t", "a", "r", "t", "e", "d">>,
               <<"p", "e", "n", "d", "i", "n", "g">>, <<"b", "a", "n", "a", "n", "a">> }

StatusTexts ==
    WholeTexts
    \cup UNION { { Join(Tuple(f), <<>>) : f \in [1..n -> StatusTokens] } : n \in 0..MaxTokens }

StatusWorkbooks ==
    { [name |-> <<"s", ".", "x", "l", "s", "x">>,
       rows |-> << SheetRow(<<"1">>, <<"1">>, <<"7">>, <<"1">>, StrF200, t) >>] : t \in StatusTexts }

LoadStatus == files = <<>> /\ \E wb \in StatusWorkbooks : FileLoaded(wb)

NextStatus ==
    \/ LoadStatus
    \/ FilterStatus

SpecStatus == Init /\ [][NextStatus]_vars

\* the REMARKS text of the only row of the active file
StatusText == ObjGet(files[activeKey].rows[1], ColREMARKS)

\* the summary counts of a view of one row classified as status
SummaryOfOne(status) ==
    /\ summary.total = 1
    /\ summary.completed = (IF status = "Completed" THEN 1 ELSE 0)
    /\ summary.inProgress = (IF status = "In Progress" THEN 1 ELSE 0)
    /\ summary.notStarted = (IF status = "Not Started" THEN 1 ELSE 0)

\* t holds "in", then any number of blanks, then "progress"
InBlanksProgress(t) ==
    \E i \in 1..Len(t) : \E n \in 0..Len(t) :
        /\ i + n + 9 <= Len(t)
        /\ t[i] = "i" /\ t[i + 1] = "n"
        /\ \A k \in 1..n : IsSpace(t[i + 1 + k])
        /\ SubSeq(t, i + n + 2, i + n + 9) = <<"p", "r", "o", "g", "r", "e", "s", "s">>

\* the status the rules give text when inProgress tells the texts of rule 2
StatusByRules(text, inProgress(_)) ==
    LET low == toLowerCase(text)
    IN  IF includes(low, StrDone) THEN "Completed"
        ELSE IF inProgress(low) THEN "In Progress"
        ELSE "Not Started"

FilterCategory(fs) ==
    CASE fs = "Finished" -> "Completed"
      [] fs = "In Progress" -> "In Progress"
      [] fs = "Not Started" -> "Not Started"

\* C8: with the status filter at Finished / In Progress / Not Started and the
\* other controls at rest, a row is displayed iff classifyStatus gives it
\* Completed / In Progress / Not Started, and the summary of the view counts
\* every displayed row in that one class.
C8_FilterReusesClassifier ==
    (activeKey # Null /\ fStatus \in {"Finished", "In Progress", "Not Started"}) =>
        LET rows == files[activeKey].rows
            InClass(i) == classifyStatus(ObjGet(rows[i], ColREMARKS)) = FilterCategory(fStatus)
        IN  /\ \A i \in DOMAIN rows : (i \in Range(displayed)) <=> InClass(i)
            /\ summary.total = Len(displayed)
            /\ summary.completed = (IF fStatus = "Finished" THEN Len(displayed) ELSE 0)
            /\ summary.inProgress = (IF fStatus = "In Progress" THEN Len(displayed) ELSE 0)
            /\ summary.notStarted = (IF fStatus = "Not Started" THEN Len(displayed) ELSE 0)

----------------------------------------------------------------------------
(* The export: one file is loaded and exported *)

\* the rows of the large container
MaxRows == 40

\* the longest of the small files, in rows
MaxSmallRows == 3

\* n rows of container 1 with the headers ContainerNum and REMARKS, the first
\* `finished` of them Done
ContainerOfRows(n, finished) ==
    Tuple([i \in 1..n |-> << [k |-> ColContainerNum, v |-> <<"1">>],
                              [k |-> ColREMARKS, v |-> IF i <= finished THEN TextDone ELSE <<>>] >>])

\* the rows the small files are made of: containers "10" and "2", a blank
\* container, the three factories of factoryOrder, a blank factory, a factory
\* outside factoryOrder
RowKinds == {
    SheetRow(<<"1">>, <<"1", "0">>, <<"7">>, <<"1">>, StrF200, TextDone),
    SheetRow(<<"2">>, <<"2">>, <<"7">>, <<"1">>, StrF100, <<>>),
    SheetRow(<<"3">>, <<>>, <<"7">>, <<"1">>, factoryOrder[3], TextDone),
    SheetRow(<<"4">>, <<"2">>, <<"7">>, <<"1">>, <<>>, TextDone),
    SheetRow(<<"5">>, <<"1", "0">>, <<"7">>, <<"1">>, <<"X">>, TextInProgress) }

RollupWorkbooks ==
    { [name |-> <<"c", ".", "x", "l", "s", "x">>, rows |-> ContainerOfRows(MaxRows, f)] :
          f \in 0..MaxRows }
    \cup UNION { { [name |-> <<"r", ".", "x", "l", "s", "x">>, rows |-> Tuple(rs)] :
                      rs \in [1..n -> RowKinds] } : n \in 0..MaxSmallRows }

LoadRollup == files = <<>> /\ \E wb \in RollupWorkbooks : FileLoaded(wb)

NextRollup ==
    \/ LoadRollup
    \/ ExportClick

SpecRollup == Init /\ [][NextRollup]_vars

\* round(100 * finished / total) in exact arithmetic, halves up; 0 for total 0
ExactPercent(finished, total) ==
    IF total = 0 THEN 0 ELSE (200 * finished + total) \div (2 * total)

RECURSIVE SumOver(_, _)
SumOver(F(_), s) == IF s = <<>> THEN 0 ELSE F(Head(s)) + SumOver(F, Tail(s))

\* the rows of a sequence that satisfy P, counted
CountRows(rows, P(_)) == Cardinality({i \in DOMAIN rows : P(rows[i])})

\* C4 for the records recs of the rollup of rows: the group records in
\* ascending key order, one per key, then ALL
RollupOf(recs, rows) ==
    LET groups == SubSeq(recs, 1, Len(recs) - 1)
        all == recs[Len(recs)]
    IN  /\ Len(recs) >= 1
        /\ all.Container = StrALL
        /\ \A i \in DOMAIN groups : \A j \in DOMAIN groups :
              i < j => StrLess(groups[i].Container, groups[j].Container)
        /\ {groups[i].Container : i \in DOMAIN groups} = ByContainerKeys(rows)
        /\ \A i \in DOMAIN groups :
              /\ groups[i].TotalBoxes =
                    CountRows(rows, LAMBDA r : ContainerGroupKey(r) = groups[i].Container)
              /\ groups[i].Finished =
                    CountRows(rows, LAMBDA r : /\ ContainerGroupKey(r) = groups[i].Container
                                               /\ isCompleted(ObjGet(r, ColREMARKS)))
        /\ \A i \in DOMAIN recs :
              /\ recs[i].Remaining = recs[i].TotalBoxes - recs[i].Finished
              /\ recs[i].CompletionPercent =
                    NumToStr(ExactPercent(recs[i].Finished, recs[i].TotalBoxes)) \o <<"%">>
        /\ all.TotalBoxes = SumOver(LAMBDA g : g.TotalBoxes, groups)
        /\ all.Finished = SumOver(LAMBDA g : g.Finished, groups)
        /\ all.TotalBoxes = Len(rows)
        /\ rows = <<>> => recs = << [Container |-> StrALL, TotalBoxes |-> 0, Finished |-> 0,
                                    Remaining |-> 0, CompletionPercent |-> <<"0", "%">>] >>

\* C4: the Analytics sheet of an export, and each per-factory sheet, is the
\* rollup of its rows: one record per distinct group key in ascending key
\* order, then ALL; Remaining = Total - Finished; CompletionPercent =
\* round(100 * Finished / Total), 0 for Total 0; ALL sums the groups, and
\* ALL.Total is the number of rows; no rows give the ALL record alone.
C4_ContainerRollup ==
    exported # <<>> =>
        /\ RollupOf(exported.Analytics, files[activeKey].rows)
        /\ \A i \in DOMAIN exported.perFactory :
              RollupOf(exported.perFactory[i].records,
                       RowsOfFactory(files[activeKey].rows, exported.perFactory[i].fac))

\* C9: every row with an empty ContainerNum is counted under "NA" in the
\* Analytics sheet and in the charts; no record and no chart label has the
\* empty group key.
C9_ContainerSentinel ==
    (activeKey # Null) =>
        LET rows == files[activeKey].rows
            blank == CountRows(rows, LAMBDA r : ObjGet(r, ColContainerNum) \in {<<>>, Undefined})
            named == CountRows(rows, LAMBDA r : ObjGet(r, ColContainerNum) = StrNA)
        IN  /\ \A i \in DOMAIN chart.labels : chart.labels[i] # <<>>
            /\ blank > 0 => \E i \in DOMAIN chart.labels :
                  /\ chart.labels[i] = StrNA
                  /\ chart.finished[i] + chart.remaining[i] = blank + named
            /\ exported # <<>> =>
                  /\ \A i \in DOMAIN exported.Analytics : exported.Analytics[i].Container # <<>>
                  /\ blank > 0 => \E i \in DOMAIN exported.Analytics :
                        /\ exported.Analytics[i].Container = StrNA
                        /\ exported.Analytics[i].TotalBoxes = blank + named

\* the ALL record of a per-factory sheet
AllOf(sheet) == sheet.records[Len(sheet.records)]

\* C10: the rows with an empty Factory are counted in the per-factory rollup
\* of "UNKNOWN", whose ALL total is their number; the ALL totals of the
\* per-factory rollups sum to the number of rows.
C10_FactorySentinel ==
    exported # <<>> =>
        LET rows == files[activeKey].rows
            blank == CountRows(rows, LAMBDA r : ObjGet(r, ColFactory) \in {<<>>, Undefined})
            named == CountRows(rows, LAMBDA r : ObjGet(r, ColFactory) = StrUNKNOWN)
        IN  /\ blank > 0 => \E i \in DOMAIN exported.perFactory :
                  /\ exported.perFactory[i].fac = StrUNKNOWN
                  /\ AllOf(exported.perFactory[i]).TotalBoxes = blank + named
            /\ SumOver(LAMBDA sheet : AllOf(sheet).TotalBoxes, exported.perFactory) = Len(rows)

----------------------------------------------------------------------------
(* Claims about the Summary sheet, checked under SpecRollup *)

\* the factories of the Summary sheet, in its order
SummaryFactories == << <<"F", "2", "0", "0">>, <<"F", "1", "0", "0">>, <<"A", "I", "O">> >>

\* the rows of r whose Factory is fac, counted
RowsIn(rows, fac) == Cardinality({i \in DOMAIN rows : ObjGet(rows[i], ColFactory) = fac})

\* the rows of r whose Factory is fac and that are completed, counted
DoneIn(rows, fac) ==
    Cardinality({i \in DOMAIN rows : /\ ObjGet(rows[i], ColFactory) = fac
                                     /\ isCompleted(ObjGet(rows[i], ColREMARKS))})

\* C11: the Summary sheet of an export holds one record for each of F200,
\* F100, AIO that has a row, in that order, then ALL, whose TotalBoxes and
\* Completed are the sums of the listed records; rows of other factories are
\* in no Summary record, and are counted by ALL of the Analytics sheet.
C11_SummaryRollup ==
    exported # <<>> =>
        LET rows == files[activeKey].rows
            sheet == exported.Summary
            recs == SubSeq(sheet, 1, Len(sheet) - 1)
            all == sheet[Len(sheet)]
            listed == SelectSeq(SummaryFactories, LAMBDA fac : RowsIn(rows, fac) > 0)
            others == Cardinality({i \in DOMAIN rows :
                          \A k \in DOMAIN SummaryFactories :
                              ObjGet(rows[i], ColFactory) # SummaryFactories[k]})
        IN  /\ Len(sheet) = Len(listed) + 1
            /\ \A i \in DOMAIN recs :
                  /\ recs[i].Factory = listed[i]
                  /\ recs[i].TotalBoxes = RowsIn(rows, listed[i])
                  /\ recs[i].Completed = DoneIn(rows, listed[i])
            /\ all.Factory = StrALL
            /\ all.TotalBoxes = SumOver(LAMBDA x : x.TotalBoxes, recs)
            /\ all.Completed = SumOver(LAMBDA x : x.Completed, recs)
            /\ all.TotalBoxes = Len(rows) - others
            /\ exported.Analytics[Len(exported.Analytics)].TotalBoxes = Len(rows)

\* C11 witness: an export of a file with rows of F100 before rows of F200 and
\* a row of another factory: two factory records, then ALL, which counts
\* fewer rows than ALL of the Analytics sheet
C11_Witness ==
    /\ exported # <<>>
    /\ Len(exported.Summary) = 3
    /\ ObjGet(files[activeKey].rows[1], ColFactory) = SummaryFactories[2]
    /\ exported.Summary[1].Factory = SummaryFactories[1]
    /\ exported.Summary[3].TotalBoxes < exported.Analytics[Len(exported.Analytics)].TotalBoxes

----------------------------------------------------------------------------
(* Claims about the row key and about headers of empty key *)

\* C12: two rows of a file have the same joined key iff their NO, BoxNum and
\* ContainerNum are equal one by one, and the row an edit handler picks for a
\* displayed row has the (NO, BoxNum, ContainerNum) of that row.
C12_KeyInjective ==
    \A key \in DOMAIN files :
        LET rows == files[key].rows
        IN  \A i \in DOMAIN rows :
                /\ \A j \in DOMAIN rows :
                      identifier(rows[i]) = identifier(rows[j])
                          <=> KeyTuple(rows[i]) = KeyTuple(rows[j])
                /\ KeyTuple(rows[EditTarget(rows, rows[i])]) = KeyTuple(rows[i])

\* C13: a raw header whose normalized key is empty is the source of no
\* canonical column: no step selects it, and no canonical column holds its
\* value.
C13_EmptyKeyNeverMatches ==
    resolved =>
        \A i \in DOMAIN rawRow :
            normalizeKey(rawRow[i].k) = <<>> =>
                \A c \in DOMAIN EXPECTED_COLS :
                    /\ foundOriginal(rawRow, EXPECTED_COLS[c]) # rawRow[i].k
                    /\ nr[c].v # rawRow[i].v

----------------------------------------------------------------------------
(* Claims about the datasets of the page *)

\* the columns no input of the model writes
UntouchedCols == Range(EXPECTED_COLS) \ (EditCols \cup {ColREMARKS})

\* rows has the rows that raw gave at load time, in their order: as many
\* rows, each with the keys of its row at load time in their order, every
\* canonical column among them, and with its values in the untouched columns
SameShape(rows, raw) ==
    /\ Len(rows) = Len(raw)
    /\ \A i \in DOMAIN rows :
          LET atLoad == NormalizeRow(raw[i])
          IN  /\ ObjKeys(rows[i]) = ObjKeys(atLoad)
              /\ \A c \in DOMAIN EXPECTED_COLS : ObjHas(rows[i], EXPECTED_COLS[c])
              /\ \A c \in UntouchedCols : ObjGet(rows[i], c) = ObjGet(atLoad, c)

\* the rows of the file of the pool that is named name
RawRowsOf(pool, name) == (CHOOSE wb \in pool : wb.name = name).rows

\* C14: whatever edits, REMARKS selections, Apply-All clicks, filter changes,
\* card clicks, file switches and exports have happened, every loaded file
\* has the rows it had at load time, in their order, each with every
\* canonical column; and a step that is neither a load nor an edit (a filter
\* change, a card click, a file switch, an export) changes no row value.
C14_ShapeStable ==
    /\ [](\A key \in DOMAIN files :
              SameShape(files[key].rows, RawRowsOf(WorkbookPool, files[key].name)))
    /\ [][(edits' = edits /\ loaded' = loaded) => files' = files]_vars

\* C14 witness: both files are loaded, an edit has been made and has changed
\* a row, and the file has just been exported
C14_Witness ==
    /\ Cardinality(DOMAIN files) = 2
    /\ edits = 1
    /\ exported # <<>>
    /\ \E i \in DOMAIN files[activeKey].rows :
          files[activeKey].rows[i]
              # NormalizeRow(RawRowsOf(WorkbookPool, files[activeKey].name)[i])

----------------------------------------------------------------------------
(* Files in use: files are read in any order, switched and edited *)

\* three one-row files; the names of the first two differ in letter case
FilePool == {
    [name |-> <<"A", ".", "x", "l", "s", "x">>,
     rows |-> << SheetRow(<<"1">>, <<"1">>, <<"7">>, <<"1">>, StrF200, <<>>) >>],
    [name |-> <<"a", ".", "x", "l", "s", "x">>,
     rows |-> << SheetRow(<<"2">>, <<"1">>, <<"8">>, <<"1">>, StrF200, TextDone) >>],
    [name |-> <<"b", " ", "1", ".", "x", "l", "s", "x">>,
     rows |-> << SheetRow(<<"3">>, <<"2">>, <<"9">>, <<"1">>, StrF100, <<>>) >>] }

LoadFile == \E wb \in FilePool : FileLoaded(wb)

NextFiles ==
    \/ LoadFile
    \/ SwitchFile
    \/ SelectRemark
    \/ TypeCell

SpecFiles == Init /\ [][NextFiles]_vars

\* C15: every file read so far has its own entry in files, with the rows it
\* had at load time; and reading a file leaves the entry (the rows, with the
\* edits made to them) of every file of another name as it was.
C15_DatasetLifecycle ==
    /\ [](\A name \in loaded : \E key \in DOMAIN files :
              /\ files[key].name = name
              /\ SameShape(files[key].rows, RawRowsOf(FilePool, name)))
    /\ [][\A key \in DOMAIN files :
              (loaded' # loaded /\ files[key].name \notin (loaded' \ loaded))
                  => (key \in DOMAIN files' /\ files'[key] = files[key])]_vars

----------------------------------------------------------------------------
(* Apply-All and the card views *)

\* C16: an Apply-All step writes the chosen value into REMARKS of exactly
\* the rows displayed before the click, and leaves every other row as it was.
C16_ApplyAllVisibleOnly ==
    [][\A val \in ApplyOptions :
          ApplyAllClick(val) =>
              LET before == files[activeKey].rows
                  after == files'[activeKey].rows
              IN  \A i \in 1..Len(before) :
                      after[i] = IF i \in Range(displayed)
                                 THEN ObjSet(before[i], ColREMARKS, val)
                                 ELSE before[i]]_vars

\* C17: a click on the Multi-pack (Normal) card displays as many rows as the
\* card showed before the click; and the two card counts always add up to the
\* number of displayed rows.
C17_CardCountsMatchViews ==
    /\ [][\A multipack \in BOOLEAN :
              CardClick(multipack) =>
                  Len(displayed') = IF multipack THEN cardCounts.multi
                                                 ELSE cardCounts.normal]_vars
    /\ [](cardCounts.multi + cardCounts.normal = rowsCount)

====
